---------------------------- MODULE Spec2Model ----------------------------
(***************************************************************************)
(* A model of await_state: AwaitStateMap (src/src/await_state.rs), a       *)
(* DashMap from keys to Arc<WatchDiff<T>>, and WatchDiff                   *)
(* (src/src/watch_diff.rs), a cell holding (prev, current) behind a tokio  *)
(* RwLock together with a tokio Notify.                                    *)
(*                                                                         *)
(* Tasks run on a multi-threaded runtime, so every step between two        *)
(* synchronisation points of a task is one action and the actions of       *)
(* different tasks interleave freely.                                      *)
(*                                                                         *)
(* Library semantics the code relies on:                                   *)
(*  - DashMap::get returns a Ref that keeps the key's shard locked shared  *)
(*    until the Ref is dropped; insert and remove lock the shard           *)
(*    exclusively for their duration.                                      *)
(*  - tokio RwLock: any number of readers or one writer.                   *)
(*  - tokio Notify::notify_waiters wakes exactly the Notified futures that *)
(*    exist at the moment of the call and stores no permit.                *)
(*  - tokio::time::timeout returns Err(Elapsed) and drops the inner future *)
(*    when the inner future is pending and the timer has fired.            *)
(***************************************************************************)
EXTENDS Integers, FiniteSets, Sequences, Bags, TLC

\* ------------------------------------------------------------- bounds ---
\* calls that can be in flight at once
NumTasks == 2
\* T is 0..MaxVal
MaxVal == 1

Values == 0..MaxVal
Keys == {"k1", "k2"}
\* the WatchDiff cells a key can stand for at one time: the one the map
\* holds and one that a put replaced while a Ref still pointed to it
Cells == Keys \X {1, 2}

None == -1
NoCell == <<"none", 0>>

\* the two ways the keys can fall into DashMap's shards
ShardLayouts == { [k \in Keys |-> "s1"],
                  [k \in Keys |-> IF k = "k1" THEN "s1" ELSE "s2"] }

\* predicates Fn(&T, &T) -> bool handed to wait_until
\*   never        |_, c| *c == x for an x no cell ever holds
\*   curr(a)      |_, c| *c == a
\*   trans(a, b)  |p, c| *p == a && *c == b
\* the values are interchangeable, so one predicate of each shape is kept
NoPred == [kind |-> "none", a |-> 0, b |-> 0]
Preds == { [kind |-> "never", a |-> 0, b |-> 0],
           [kind |-> "curr", a |-> 1, b |-> 0],
           [kind |-> "trans", a |-> 0, b |-> 1],
           [kind |-> "trans", a |-> 1, b |-> 1] }

predicate(pr, p, c) ==
    CASE pr.kind = "curr"  -> c = pr.a
      [] pr.kind = "trans" -> p = pr.a /\ c = pr.b
      [] OTHER             -> FALSE

\* Result<T, AwaitStateError>
Ok(v) == [kind |-> "Ok", val |-> v]
OkUnit == [kind |-> "Ok", val |-> None]
KeyNotFound == [kind |-> "KeyNotFound", val |-> None]
TimeoutExpired == [kind |-> "TimeoutExpired", val |-> None]

Nothing == [op |-> "none", key |-> "k1", val |-> 0, pred |-> NoPred,
            pc |-> "none", result |-> [kind |-> "none", val |-> None],
            before |-> <<None, None>>]

VARIABLES
    map,       \* AwaitStateMap.map: key -> cell, NoCell when absent
    shardOf,   \* the shard each key hashes to
    prev,      \* Inner.prev of each cell, None for Option::None
    current,   \* Inner.current of each cell
    wlock,     \* whether the cell's RwLock is held for writing
    tasks,     \* the calls in flight, a bag of records
               \*   op, key, val, pred  the call and its arguments
               \*   pc     its position; at "notified" its Notified future
               \*          is among the waiters of the cell's Notify
               \*   entry  the cell behind the Ref it holds, NoCell if none
               \*   timer  whether the timer of wait_until_timeout has fired
    returned,  \* the call that returned in the last step, the position it
               \* returned from, its result, and the pair its key's cell held
               \* before the step, <<None, None>> for an absent key
    hist,      \* history: the last two values installed in each cell, by
               \* WatchDiff::new and by every set in the order of the write lock
    sets       \* history: the sets applied to each cell, counted up to two

vars == <<map, shardOf, prev, current, wlock, tasks, returned, hist, sets>>

cellVars == <<prev, current, wlock>>

\* AwaitStateMap::new, before any call
Boot ==
    /\ map = [k \in Keys |-> NoCell]
    /\ prev = [c \in Cells |-> None]
    /\ current = [c \in Cells |-> 0]
    /\ wlock = [c \in Cells |-> FALSE]
    /\ tasks = EmptyBag
    /\ returned = Nothing
    /\ hist = [c \in Cells |-> <<>>]
    /\ sets = [c \in Cells |-> 0]

Init == Boot /\ shardOf = [k \in Keys |-> "s1"]

InitKeys == Boot /\ shardOf \in ShardLayouts

\* ------------------------------------------------------------ helpers ---

Running == BagToSet(tasks)

\* a Ref into the shard of key k is alive: the shard is locked shared
ShardShared(k) ==
    \E u \in Running : u.entry # NoCell /\ shardOf[u.key] = shardOf[k]

\* no Ref points to cell c
Unreferenced(c) == \A u \in Running : u.entry # c

\* the cell that put makes for key k: a new one, named by the first of k's
\* cells that is free once the map lets go of the old one
NewCell(k) ==
    IF Unreferenced(<<k, 1>>) THEN <<k, 1>> ELSE <<k, 2>>

\* the cells as they are once the map's handle on cell o is gone: a cell no
\* Ref points to any more is freed
Dropped(f, o, init) ==
    [c \in Cells |-> IF c = o /\ Unreferenced(o) THEN init ELSE f[c]]

\* the pair the cell of key k holds
Before(k) ==
    IF map[k] = NoCell THEN <<None, None>> ELSE <<prev[map[k]], current[map[k]]>>

\* call t ends with result r; its Ref, if any, is dropped with it
Return(t, r) ==
    /\ tasks' = tasks (-) SetToBag({t})
    /\ returned' = [op |-> t.op, key |-> t.key, val |-> t.val, pred |-> t.pred,
                    pc |-> t.pc, result |-> r, before |-> Before(t.key)]

\* call t goes on as u
Goto(t, u) ==
    /\ tasks' = (tasks (-) SetToBag({t})) (+) SetToBag({u})
    /\ returned' = Nothing

\* the calls a caller can make on the keys K with the predicates P
Requests(K, P) ==
    { [op |-> o, key |-> k, val |-> v, pred |-> NoPred] :
          o \in {"put", "set_state"}, k \in K, v \in Values }
    \cup { [op |-> o, key |-> k, val |-> 0, pred |-> NoPred] :
          o \in {"remove", "get_state"}, k \in K }
    \cup { [op |-> o, key |-> k, val |-> 0, pred |-> p] :
          o \in {"wait_until", "wait_until_timeout"}, k \in K, p \in P }

FirstPc(o) == IF o = "wait_until_timeout" THEN "wait_until" ELSE o

\* ----------------------------------------------------------- actions ----

\* a caller starts a call
Call(K, P) ==
    /\ BagCardinality(tasks) < NumTasks
    /\ \E r \in Requests(K, P) :
          tasks' = tasks (+) SetToBag({[op |-> r.op, key |-> r.key, val |-> r.val,
                                        pred |-> r.pred, pc |-> FirstPc(r.op),
                                        entry |-> NoCell, timer |-> FALSE]})
    /\ returned' = Nothing
    /\ UNCHANGED <<map, shardOf, cellVars, hist, sets>>

\* faulty variant: put on a present key updates the cell in place
put_InPlace(t) ==
    /\ t.pc = "put"
    /\ ~ShardShared(t.key)
    /\ LET c == IF map[t.key] = NoCell THEN NewCell(t.key) ELSE map[t.key] IN
          /\ map' = [map EXCEPT ![t.key] = c]
          /\ current' = [current EXCEPT ![c] = t.val]
          /\ hist' = [hist EXCEPT ![c] = <<t.val>>]
          /\ sets' = [sets EXCEPT ![c] = 0]
    /\ Return(t, OkUnit)
    /\ UNCHANGED <<shardOf, prev, wlock>>

\* AwaitStateMap::put: WatchDiff::new, then DashMap::insert under the
\* shard's exclusive lock; the cell it replaces is dropped
put(t) ==
    /\ t.pc = "put"
    /\ ~ShardShared(t.key)
    /\ LET c == NewCell(t.key) IN
          /\ Unreferenced(c)
          /\ map' = [map EXCEPT ![t.key] = c]
          /\ prev' = [Dropped(prev, map[t.key], None) EXCEPT ![c] = None]
          /\ current' = [Dropped(current, map[t.key], 0) EXCEPT ![c] = t.val]
          /\ hist' = [Dropped(hist, map[t.key], <<>>) EXCEPT ![c] = <<t.val>>]
          /\ sets' = [Dropped(sets, map[t.key], 0) EXCEPT ![c] = 0]
    /\ Return(t, OkUnit)
    /\ UNCHANGED <<shardOf, wlock>>

\* faulty variant: remove empties the map
remove_Clears(t) ==
    /\ t.pc = "remove"
    /\ ~ShardShared(t.key)
    /\ map' = [k \in Keys |-> NoCell]
    /\ prev' = Dropped(prev, map[t.key], None)
    /\ current' = Dropped(current, map[t.key], 0)
    /\ hist' = Dropped(hist, map[t.key], <<>>)
    /\ sets' = Dropped(sets, map[t.key], 0)
    /\ Return(t, OkUnit)
    /\ UNCHANGED <<shardOf, wlock>>

\* AwaitStateMap::remove: DashMap::remove under the shard's exclusive lock
remove(t) ==
    /\ t.pc = "remove"
    /\ ~ShardShared(t.key)
    /\ map' = [map EXCEPT ![t.key] = NoCell]
    /\ prev' = Dropped(prev, map[t.key], None)
    /\ current' = Dropped(current, map[t.key], 0)
    /\ hist' = Dropped(hist, map[t.key], <<>>)
    /\ sets' = Dropped(sets, map[t.key], 0)
    /\ Return(t, OkUnit)
    /\ UNCHANGED <<shardOf, wlock>>

\* faulty variant: the lookup of an absent key creates the entry
Lookup_Creates(t, here, next) ==
    /\ t.pc = here
    /\ LET c == IF map[t.key] = NoCell THEN NewCell(t.key) ELSE map[t.key] IN
          /\ map' = [map EXCEPT ![t.key] = c]
          /\ hist' = [hist EXCEPT ![c] = IF map[t.key] = NoCell THEN <<0>> ELSE @]
          /\ Goto(t, [t EXCEPT !.pc = next, !.entry = c])
    /\ UNCHANGED <<shardOf, cellVars, sets>>

\* self.map.get(key) of set_state, get_state and wait_until: the Ref of a
\* present key is taken and kept, an absent key ends the call
Lookup(t, here, next) ==
    /\ t.pc = here
    /\ IF map[t.key] = NoCell
          THEN Return(t, KeyNotFound)
          ELSE Goto(t, [t EXCEPT !.pc = next, !.entry = map[t.key]])
    /\ UNCHANGED <<map, shardOf, cellVars, hist, sets>>

\* ---- WatchDiff

\* faulty variant: a read is granted while a writer holds the lock
Readable_DuringWrite(c) == c \in Cells

\* self.inner.read().await is granted while no writer holds the lock
Readable(c) == ~wlock[c]

\* WatchDiff::get_diff_cloned: under the read guard both fields are cloned;
\* the guard is dropped before the next suspension point
get_diff_cloned(c) == <<prev[c], current[c]>>

\* faulty variant: changed returns whenever prev is Some
Changed_Any(s) == s[1] # None

\* changed returns (prev, curr) when prev is Some and differs from curr
Changed(s) == s[1] # None /\ s[2] # s[1]

\* the calls whose Notified future is among the waiters of cell c's Notify
Waiters(c) == { u \in Running : u.pc = "notified" /\ u.entry = c }

\* Notify::notify_waiters on cell c: every waiter's Notified future
\* completes, the others are left as they are
Notified(u) == [u EXCEPT !.pc = "get_diff_cloned"]

\* faulty variant: one waiter is woken, as by notify_one
notify_waiters_One(c) ==
    IF Waiters(c) = {}
       THEN tasks
       ELSE LET u == CHOOSE w \in Waiters(c) : TRUE
            IN  (tasks (-) SetToBag({u})) (+) SetToBag({Notified(u)})

notify_waiters(c) ==
    LET W == Waiters(c)
        rest == Running \ W
        woken == { Notified(u) : u \in W }
    IN  [ x \in rest \cup woken |->
            (IF x \in rest THEN CopiesIn(x, tasks) ELSE 0)
          + (IF x \in woken
               THEN CopiesIn([x EXCEPT !.pc = "notified"], tasks)
               ELSE 0) ]

\* ---- AwaitStateMap::set_state and WatchDiff::set

set_state(t) == Lookup(t, "set_state", "set")

\* faulty variant: set does not move current into prev
set_prev_NoShift(t) ==
    /\ t.pc = "set"
    /\ ~wlock[t.entry]
    /\ wlock' = [wlock EXCEPT ![t.entry] = TRUE]
    /\ hist' = [hist EXCEPT ![t.entry] = <<@[Len(@)], t.val>>]
    /\ sets' = [sets EXCEPT ![t.entry] = IF @ < 2 THEN @ + 1 ELSE @]
    /\ Goto(t, [t EXCEPT !.pc = "set_current"])
    /\ UNCHANGED <<map, shardOf, prev, current>>

\* self.inner.write().await, then write.prev = Some(write.current.clone())
set_prev(t) ==
    /\ t.pc = "set"
    /\ ~wlock[t.entry]
    /\ wlock' = [wlock EXCEPT ![t.entry] = TRUE]
    /\ prev' = [prev EXCEPT ![t.entry] = current[t.entry]]
    /\ hist' = [hist EXCEPT ![t.entry] = <<@[Len(@)], t.val>>]
    /\ sets' = [sets EXCEPT ![t.entry] = IF @ < 2 THEN @ + 1 ELSE @]
    /\ Goto(t, [t EXCEPT !.pc = "set_current"])
    /\ UNCHANGED <<map, shardOf, current>>

\* faulty variant: the write guard is dropped once current is installed
set_current_Releases(t) ==
    /\ t.pc = "set_current"
    /\ current' = [current EXCEPT ![t.entry] = t.val]
    /\ wlock' = [wlock EXCEPT ![t.entry] = FALSE]
    /\ Goto(t, [t EXCEPT !.pc = "set_notify"])
    /\ UNCHANGED <<map, shardOf, prev, hist, sets>>

\* write.current = new
set_current(t) ==
    /\ t.pc = "set_current"
    /\ current' = [current EXCEPT ![t.entry] = t.val]
    /\ Goto(t, [t EXCEPT !.pc = "set_notify"])
    /\ UNCHANGED <<map, shardOf, prev, wlock, hist, sets>>

\* faulty variant: a set that left the value unchanged notifies nobody
set_notify_OnChange(t) ==
    /\ t.pc = "set_notify"
    /\ LET woken == IF prev[t.entry] = current[t.entry]
                        THEN tasks
                        ELSE notify_waiters(t.entry)
       IN  tasks' = (woken (-) SetToBag({t})) (+) SetToBag({[t EXCEPT !.pc = "set_end"]})
    /\ returned' = Nothing
    /\ UNCHANGED <<map, shardOf, cellVars, hist, sets>>

\* self.notify.notify_waiters(), the write guard still alive
set_notify(t) ==
    /\ t.pc = "set_notify"
    /\ LET woken == notify_waiters(t.entry) IN
          tasks' = (woken (-) SetToBag({t})) (+) SetToBag({[t EXCEPT !.pc = "set_end"]})
    /\ returned' = Nothing
    /\ UNCHANGED <<map, shardOf, cellVars, hist, sets>>

\* the write guard is dropped at the end of set; set_state gives Ok(()) and
\* drops the Ref
set_end(t) ==
    /\ t.pc = "set_end"
    /\ wlock' = [wlock EXCEPT ![t.entry] = FALSE]
    /\ Return(t, OkUnit)
    /\ UNCHANGED <<map, shardOf, prev, current, hist, sets>>

\* ---- AwaitStateMap::get_state

get_state(t) == Lookup(t, "get_state", "get_state_read")

\* Ok(value.get_diff_cloned().await.1), the Ref is dropped
get_state_read(t) ==
    /\ t.pc = "get_state_read"
    /\ Readable(t.entry)
    /\ Return(t, Ok(get_diff_cloned(t.entry)[2]))
    /\ UNCHANGED <<map, shardOf, cellVars, hist, sets>>

\* ---- AwaitStateMap::wait_until and WatchDiff::changed

wait_until(t) == Lookup(t, "wait_until", "wait_until_check")

\* faulty variant: a cell without history passes the first check
FirstCheck_NoHistoryPasses(pr, s) ==
    IF s[1] # None THEN predicate(pr, s[1], s[2]) ELSE TRUE

\* faulty variant: a cell without history never passes the first check
FirstCheck_NeedsHistory(pr, s) ==
    s[1] # None /\ predicate(pr, s[1], s[2])

\* the first check of an iteration: predicate(prev, curr), or
\* predicate(curr, curr) when prev is None
FirstCheck(pr, s) ==
    IF s[1] # None THEN predicate(pr, s[1], s[2]) ELSE predicate(pr, s[2], s[2])

\* let (prev, curr) = entry.get_diff_cloned().await and the first check
wait_until_check(t) ==
    /\ t.pc = "wait_until_check"
    /\ Readable(t.entry)
    /\ IF FirstCheck(t.pred, get_diff_cloned(t.entry))
          THEN Return(t, Ok(get_diff_cloned(t.entry)[2]))
          ELSE Goto(t, [t EXCEPT !.pc = "changed"])
    /\ UNCHANGED <<map, shardOf, cellVars, hist, sets>>

\* entry.changed(): self.notify.notified() creates the Notified future, which
\* from then on receives notify_waiters, and the future is pending. A
\* wait_until_timeout whose timer has fired ends here
changed(t) ==
    /\ t.pc = "changed"
    /\ IF t.timer
          THEN Return(t, TimeoutExpired)
          ELSE Goto(t, [t EXCEPT !.pc = "notified"])
    /\ UNCHANGED <<map, shardOf, cellVars, hist, sets>>

\* notified().await has completed; the rest of changed's loop body and, when
\* changed returns, the second check of wait_until's iteration; a failed
\* check drops the Ref and starts over
changed_check(t) ==
    /\ t.pc = "get_diff_cloned"
    /\ Readable(t.entry)
    /\ LET s == get_diff_cloned(t.entry) IN
          IF Changed(s)
             THEN IF predicate(t.pred, s[1], s[2])
                     THEN Return(t, Ok(s[2]))
                     ELSE Goto(t, [t EXCEPT !.pc = "wait_until", !.entry = NoCell])
             ELSE Goto(t, [t EXCEPT !.pc = "changed"])
    /\ UNCHANGED <<map, shardOf, cellVars, hist, sets>>

\* ---- AwaitStateMap::wait_until_timeout

\* faulty variant: timeout gives up a future that is not pending
Suspended_Anywhere(t) == t.pc # "none"

\* the wait_until future is pending: parked on the Notify, or waiting for
\* the read guard behind a writer
Suspended(t) ==
    \/ t.pc = "notified"
    \/ /\ t.pc \in {"wait_until_check", "get_diff_cloned"}
       /\ ~Readable(t.entry)

\* the duration passes. A timer that fires while the task is running is
\* noticed when the future is next pending, so the step is taken there
timer_fires(t) ==
    /\ t.op = "wait_until_timeout"
    /\ Suspended(t)
    /\ ~t.timer
    /\ Goto(t, [t EXCEPT !.timer = TRUE])
    /\ UNCHANGED <<map, shardOf, cellVars, hist, sets>>

\* faulty variant: the dropped future stays registered and keeps its Ref
wait_until_timeout_Leaks(t) ==
    /\ t.op = "wait_until_timeout"
    /\ t.timer
    /\ Suspended(t)
    /\ tasks' = tasks
    /\ returned' = [op |-> t.op, key |-> t.key, val |-> t.val, pred |-> t.pred,
                    pc |-> t.pc, result |-> TimeoutExpired,
                    before |-> Before(t.key)]
    /\ UNCHANGED <<map, shardOf, cellVars, hist, sets>>

\* timeout(...) finds the future pending and the timer fired: the future is
\* dropped (its Notified leaves the waiters, its Ref is released) and
\* map_err gives TimeoutExpired
wait_until_timeout(t) ==
    /\ t.op = "wait_until_timeout"
    /\ t.timer
    /\ Suspended(t)
    /\ Return(t, TimeoutExpired)
    /\ UNCHANGED <<map, shardOf, cellVars, hist, sets>>

\* ------------------------------------------------------ specifications --

\* each step of the program, taken by any call in flight
Put == \E t \in Running : put(t)
Remove == \E t \in Running : remove(t)
SetState == \E t \in Running : set_state(t)
SetPrev == \E t \in Running : set_prev(t)
SetCurrent == \E t \in Running : set_current(t)
SetNotify == \E t \in Running : set_notify(t)
SetEnd == \E t \in Running : set_end(t)
GetState == \E t \in Running : get_state(t)
GetStateRead == \E t \in Running : get_state_read(t)
WaitUntil == \E t \in Running : wait_until(t)
WaitUntilCheck == \E t \in Running : wait_until_check(t)
ChangedNotified == \E t \in Running : changed(t)
ChangedCheck == \E t \in Running : changed_check(t)
TimerFires == \E t \in Running : timer_fires(t)
WaitUntilTimeout == \E t \in Running : wait_until_timeout(t)

Step ==
    \/ Put
    \/ Remove
    \/ SetState
    \/ SetPrev
    \/ SetCurrent
    \/ SetNotify
    \/ SetEnd
    \/ GetState
    \/ GetStateRead
    \/ WaitUntil
    \/ WaitUntilCheck
    \/ ChangedNotified
    \/ ChangedCheck
    \/ TimerFires
    \/ WaitUntilTimeout

\* up to NumTasks concurrent calls on one key
Next == Call({"k1"}, Preds) \/ Step

Spec == Init /\ [][Next]_vars

\* up to NumTasks concurrent calls on two keys, in either shard layout,
\* the waits with one predicate
NextKeys == Call(Keys, {[kind |-> "curr", a |-> 1, b |-> 0]}) \/ Step

SpecKeys == InitKeys /\ [][NextKeys]_vars

\* the steps of a wait_until_timeout whose timer has fired: the timer wakes
\* the task and the runtime polls it
TimedOutStep ==
    \E t \in Running :
        /\ t.timer
        /\ \/ wait_until(t)
           \/ wait_until_check(t)
           \/ changed(t)
           \/ changed_check(t)
           \/ wait_until_timeout(t)

\* as Next, with one wait_until_timeout in flight at a time
NextLive ==
    \/ /\ Call({"k1"}, Preds)
       /\ \A t, u \in BagToSet(tasks') :
              (t.op = "wait_until_timeout" /\ u.op = "wait_until_timeout")
              => (t = u /\ CopiesIn(t, tasks') = 1)
    \/ Step

SpecLive == Init /\ [][NextLive]_vars /\ WF_vars(TimedOutStep)

\* a producer and several waiters: one call more in flight than in Next, the
\* calls being put, set_state and wait_until on one key
CallWaiters ==
    /\ BagCardinality(tasks) < NumTasks + 1
    /\ \E r \in Requests({"k1"}, {[kind |-> "curr", a |-> 1, b |-> 0],
                                    [kind |-> "trans", a |-> 0, b |-> 1]}) :
          /\ r.op \in {"put", "set_state", "wait_until"}
          /\ tasks' = tasks (+) SetToBag({[op |-> r.op, key |-> r.key, val |-> r.val,
                                           pred |-> r.pred, pc |-> FirstPc(r.op),
                                           entry |-> NoCell, timer |-> FALSE]})
    /\ returned' = Nothing
    /\ UNCHANGED <<map, shardOf, cellVars, hist, sets>>

NextWaiters ==
    \/ CallWaiters
    \/ Put
    \/ SetState
    \/ SetPrev
    \/ SetCurrent
    \/ SetNotify
    \/ SetEnd
    \/ WaitUntil
    \/ WaitUntilCheck
    \/ ChangedNotified
    \/ ChangedCheck

SpecWaiters == Init /\ [][NextWaiters]_vars

\* ------------------------------------------------------------- claims ---

\* nothing but parked waiters is in flight on key k: unless a new call is
\* made on k, no step of the program touches k's entry or cell again
Quiet(k) == \A u \in Running : u.key = k => u.pc = "notified"

\* C1: no missed wakeup. When a set_state has produced a transition (p, v),
\* p # v, that satisfies the predicate of a wait_until started before it
\* ended, and nothing else is in flight on the key, that wait_until is not
\* left parked: parked it would stay, for nothing notifies it any more.
C1_NoMissedWakeup ==
    \A t \in Running :
        (t.op = "wait_until" /\ t.pc = "notified" /\ Quiet(t.key))
        => LET s == get_diff_cloned(t.entry)
           IN  ~(Changed(s) /\ predicate(t.pred, s[1], s[2]))

\* C2: removing a key does not leave a parked waiter hanging. When
\* remove(key) has been called while a wait_until on the key is parked and
\* nothing else is in flight on the key, the remove can take its step (after
\* which the waiter is to end with KeyNotFound); a state in which it cannot
\* is one where waiter and remove both hang.
C2_RemoveEndsWait ==
    \A t \in Running, r \in Running :
        ( /\ t.op = "wait_until" /\ t.pc = "notified"
          /\ r.op = "remove" /\ r.pc = "remove" /\ r.key = t.key
          /\ \A u \in Running : u.key = t.key => (u.pc = "notified" \/ u = r) )
        => ENABLED remove(r)

\* C3: put and remove never wait on a parked waiter. No put or remove that
\* has been called is held up by the Ref of a call suspended in wait_until
\* or wait_until_timeout.
C3_NoWaitOnParked ==
    \A p \in Running :
        p.pc \in {"put", "remove"}
        => ~\E w \in Running :
               /\ w.pc = "notified"
               /\ w.entry # NoCell
               /\ shardOf[w.key] = shardOf[p.key]

\* a wait_until_timeout whose predicate no pair satisfies is in flight and
\* its timer has fired
FiredNever ==
    \E t \in Running :
        t.op = "wait_until_timeout" /\ t.pred.kind = "never" /\ t.timer

\* the call that just returned is a wait_until_timeout whose predicate no
\* pair satisfies
ReturnedNever ==
    returned.op = "wait_until_timeout" /\ returned.pred.kind = "never"

\* C4: a wait_until_timeout whose predicate no pair satisfies never returns
\* Ok, and once its timer has fired it returns: Err(TimeoutExpired), or
\* Err(KeyNotFound) if the key was removed in between; set_state calls that
\* wake it do not keep it.
C4_TimeoutExpires ==
    /\ [](ReturnedNever
            => \/ returned.result = TimeoutExpired
               \/ returned.result = KeyNotFound /\ map[returned.key] = NoCell)
    /\ (FiredNever ~> (ReturnedNever /\ ~FiredNever))

\* C4 witness: the call was woken by a set_state after its timer had fired
\* and returned TimeoutExpired when it came to park again
C4_Witness ==
    /\ ReturnedNever
    /\ returned.result = TimeoutExpired
    /\ returned.pc = "changed"
    /\ map[returned.key] # NoCell

\* the first snapshot of wait_until t is taken in this step
FirstPass(t) == t.op = "wait_until" /\ wait_until_check(t)

\* call t goes on to entry.changed(), where it parks
GoesToPark(t) == Goto(t, [t EXCEPT !.pc = "changed"])

\* C5 as stated: a wait_until whose first snapshot has a current value c
\* with predicate(c, c) returns Ok(c) from that snapshot, without parking,
\* whether previous is absent or present.
C5_ReturnsOnCurrent ==
    [][ \A t \in Running :
          LET c == current[t.entry] IN
          (FirstPass(t) /\ predicate(t.pred, c, c)) => Return(t, Ok(c)) ]_vars

\* C5 amended: a wait_until whose first snapshot has a current value c with
\* predicate(c, c) returns Ok(c) from that snapshot when previous is absent;
\* when previous is present it returns Ok(c) exactly if
\* predicate(previous, c) holds too, and otherwise goes on to park.
C5_ReturnsOnCurrentNoHistory ==
    [][ \A t \in Running :
          LET p == prev[t.entry]
              c == current[t.entry]
          IN  (FirstPass(t) /\ predicate(t.pred, c, c))
              => IF p = None \/ predicate(t.pred, p, c)
                    THEN Return(t, Ok(c))
                    ELSE GoesToPark(t) ]_vars

\* C5 witness: a wait_until has gone on to park from a first snapshot
\* (p, c) with predicate(c, c) true and predicate(p, c) false
C5_Witness ==
    /\ returned = Nothing
    /\ \E t \in Running :
          /\ t.op = "wait_until" /\ t.pc = "changed"
          /\ Readable(t.entry)
          /\ LET s == get_diff_cloned(t.entry) IN
                /\ s[1] # None
                /\ predicate(t.pred, s[2], s[2])
                /\ ~predicate(t.pred, s[1], s[2])

\* C6: the first check of wait_until. On a cell without previous the call
\* returns Ok(current) of its snapshot exactly if
\* predicate(current, current) holds; on a cell with a previous value
\* exactly if predicate(previous, current) holds; otherwise it goes on to
\* entry.changed() and the step changes nothing else.
C6_FirstCheck ==
    [][ \A t \in Running :
          LET p == prev[t.entry]
              c == current[t.entry]
          IN  FirstPass(t)
              => /\ IF p = None
                       THEN Return(t, Ok(c)) <=> predicate(t.pred, c, c)
                       ELSE Return(t, Ok(c)) <=> predicate(t.pred, p, c)
                 /\ Return(t, Ok(c)) \/ GoesToPark(t)
                 /\ UNCHANGED <<map, shardOf, cellVars, hist, sets>> ]_vars

\* C6 witness: a wait_until returned from its first check on a cell with a
\* previous value p, with predicate(p, c) true and predicate(c, c) false
C6_Witness ==
    /\ returned.op = "wait_until"
    /\ returned.pc = "wait_until_check"
    /\ map[returned.key] # NoCell
    /\ LET s == get_diff_cloned(map[returned.key]) IN
          /\ s[1] # None
          /\ returned.result = Ok(s[2])
          /\ predicate(returned.pred, s[1], s[2])
          /\ ~predicate(returned.pred, s[2], s[2])

\* C7: after set_state(key, v1) and then set_state(key, v2) have completed,
\* a get_state(key) that reads the cell returns v2, and no
\* wait_until(key, |p, c| p == v1 && c == v2) issued before the second set
\* is left parked with nothing else in flight on the key: parked it would
\* stay instead of returning Ok(v2).
C7_SetSetThenRead ==
    /\ ( /\ returned.op = "get_state"
          /\ returned.result.kind = "Ok"
          /\ map[returned.key] # NoCell
          /\ sets[map[returned.key]] = 2 )
       => returned.result = Ok(hist[map[returned.key]][2])
    /\ \A t \in Running :
          ( /\ t.op = "wait_until" /\ t.pc = "notified"
            /\ Quiet(t.key)
            /\ sets[t.entry] = 2 )
          => t.pred # [kind |-> "trans", a |-> hist[t.entry][1],
                                        b |-> hist[t.entry][2]]

\* a call on an absent key looks the key up in this step
LooksUpAbsent(t) ==
    /\ map[t.key] = NoCell
    /\ set_state(t) \/ get_state(t) \/ wait_until(t)

\* C8: get_state, set_state, wait_until and wait_until_timeout on a key that
\* is not in the map return Err(KeyNotFound) and leave the map's keys and
\* every cell as they were; a key enters the map only by a put on it.
C8_AbsentKey ==
    [][ /\ \A t \in Running :
              LooksUpAbsent(t)
              => Return(t, KeyNotFound) /\ UNCHANGED <<map, cellVars>>
        /\ \A k \in Keys :
              (map[k] = NoCell /\ map'[k] # NoCell)
              => \E t \in Running : t.op = "put" /\ t.key = k /\ put(t) ]_vars

\* C8 witness: a set_state on an absent key has returned KeyNotFound while
\* the other key holds a cell that has been set
C8_Witness ==
    /\ returned.op = "set_state"
    /\ returned.result = KeyNotFound
    /\ map[returned.key] = NoCell
    /\ \E k \in Keys : map[k] # NoCell /\ sets[map[k]] > 0

\* the pair a cell holds after the installations recorded in h
Pair(h) == IF Len(h) = 1 THEN <<None, h[1]>> ELSE <<h[1], h[2]>>

\* call t reads a snapshot of its cell in this step
Reads(t) == get_state_read(t) \/ wait_until_check(t) \/ changed_check(t)

\* C9: concurrent set_state calls on a key are serialized in the order of
\* the write lock. Whenever no set is inside its exclusive section the
\* cell's pair is (absent, initial) or (value installed by the predecessor
\* of the last set, value of the last set); every snapshot read by
\* get_state or a waiter is that pair; a get_state returns the value of the
\* last set in the order.
C9_Serialized ==
    /\ [](\A c \in Cells :
             (hist[c] # <<>> /\ ~wlock[c])
             => get_diff_cloned(c) = Pair(hist[c]))
    /\ [][ \A t \in Running :
              /\ Reads(t) => get_diff_cloned(t.entry) = Pair(hist[t.entry])
              /\ get_state_read(t)
                 => Return(t, Ok(hist[t.entry][Len(hist[t.entry])])) ]_vars

\* C9 witness: of two set_state calls in flight at once on one cell, the
\* first has completed and installed its value, the second, with another
\* value, is about to take the write lock
C9_Witness ==
    /\ returned.op = "set_state"
    /\ returned.pc = "set_end"
    /\ \E u \in Running :
          /\ u.op = "set_state" /\ u.pc = "set"
          /\ u.key = returned.key
          /\ u.val # returned.val
          /\ get_diff_cloned(u.entry) = Pair(hist[u.entry])
          /\ current[u.entry] = returned.val

\* a put or a remove on the key of cell c takes its step
Replaced(c) ==
    \E t \in Running : t.key = c[1] /\ (put(t) \/ remove(t))

\* C10: in every cell prev is absent exactly when no set has been applied
\* to the cell since it was created; a set(new) applied with current = c
\* leaves prev = c and then current = new; prev does not return to absent
\* on the same cell.
C10_CellHistory ==
    /\ [](\A c \in Cells : hist[c] # <<>> => (prev[c] = None <=> sets[c] = 0))
    /\ [][ /\ \A t \in Running :
                /\ set_prev(t)
                   => /\ prev'[t.entry] = current[t.entry]
                      /\ current'[t.entry] = current[t.entry]
                /\ set_current(t)
                   => /\ prev'[t.entry] = prev[t.entry]
                      /\ current'[t.entry] = t.val
                /\ (set_notify(t) \/ set_end(t)) => UNCHANGED <<prev, current>>
            /\ \A c \in Cells :
                  (prev[c] # None /\ ~Replaced(c)) => prev'[c] # None ]_vars

\* C10 witness: a second set has completed on a cell, which holds the value
\* before it as prev and its value as current
C10_Witness ==
    /\ returned.op = "set_state"
    /\ returned.pc = "set_end"
    /\ map[returned.key] # NoCell
    /\ LET c == map[returned.key] IN
          /\ sets[c] = 2
          /\ ~wlock[c]
          /\ prev[c] = hist[c][1]
          /\ current[c] = returned.val
          /\ prev[c] # current[c]

\* C11: put(key, v) installs a fresh cell, also over a cell with a history:
\* after the step the key's cell holds (absent, v); it holds (absent, v)
\* for as long as no set has been applied to it; a get_state that reads it
\* in that time returns v.
C11_PutFresh ==
    /\ [][ \A t \in Running :
              /\ put(t)
                 => /\ map'[t.key] # NoCell
                    /\ prev'[map'[t.key]] = None
                    /\ current'[map'[t.key]] = t.val
                    /\ ~wlock'[map'[t.key]]
                    /\ sets'[map'[t.key]] = 0
              /\ (get_state_read(t) /\ sets[t.entry] = 0)
                 => Return(t, Ok(hist[t.entry][1])) ]_vars
    /\ [](\A k \in Keys :
             (map[k] # NoCell /\ sets[map[k]] = 0)
             => get_diff_cloned(map[k]) = <<None, hist[map[k]][1]>>)

\* C11 witness: a put has overwritten a cell that had a previous value; the
\* key's cell holds (absent, v)
C11_Witness ==
    /\ returned.op = "put"
    /\ returned.before[1] # None
    /\ returned.before[2] # returned.val
    /\ get_diff_cloned(map[returned.key]) = <<None, returned.val>>

\* the wait of call t is cancelled by its timer in this step
Cancelled(t) == wait_until_timeout(t) \/ (t.timer /\ changed(t))

\* C12: a wait_until_timeout that ends with TimeoutExpired leaves the map
\* and every cell as they were, the call is gone with its registration and
\* its Ref, every other call is left as it was, in particular every other
\* waiter parked on the cell stays registered; and the notify_waiters of a
\* later set wakes every waiter parked on its cell.
C12_CancelNoResidue ==
    [][ \A t \in Running :
          /\ Cancelled(t)
             => /\ returned'.result = TimeoutExpired
                /\ UNCHANGED <<map, shardOf, cellVars>>
                /\ tasks' = tasks (-) SetToBag({t})
                /\ Waiters(t.entry)' =
                       IF CopiesIn(t, tasks) > 1
                          THEN Waiters(t.entry)
                          ELSE Waiters(t.entry) \ {t}
          /\ set_notify(t)
             => /\ Waiters(t.entry)' = {}
                /\ \A u \in Waiters(t.entry) :
                      CopiesIn(Notified(u), tasks')
                         = CopiesIn(u, tasks) + CopiesIn(Notified(u), tasks) ]_vars

\* C12 witness: a wait_until_timeout parked on a cell has ended with
\* TimeoutExpired while a wait_until is parked on the same cell
C12_Witness ==
    /\ returned.op = "wait_until_timeout"
    /\ returned.result = TimeoutExpired
    /\ returned.pc = "notified"
    /\ \E u \in Running :
          /\ u.op = "wait_until" /\ u.pc = "notified"
          /\ u.key = returned.key
          /\ u.entry = map[returned.key]
          /\ get_diff_cloned(u.entry) = returned.before

\* C13: wait_until_timeout hands on the result of wait_until. Its lookup of
\* an absent key returns KeyNotFound; its first check and its check after
\* changed() return Ok(current) of the snapshot exactly when the predicate
\* holds there, as for wait_until; TimeoutExpired is returned only on a
\* present key.
C13_TimeoutPropagates ==
    /\ [][ \A t \in Running :
              t.op = "wait_until_timeout"
              => LET p == prev[t.entry]
                     c == current[t.entry]
                 IN  /\ (wait_until(t) /\ map[t.key] = NoCell)
                        => Return(t, KeyNotFound)
                     /\ wait_until_check(t)
                        => IF (p = None /\ predicate(t.pred, c, c))
                              \/ (p # None /\ predicate(t.pred, p, c))
                              THEN Return(t, Ok(c))
                              ELSE returned' = Nothing
                     /\ changed_check(t)
                        => IF p # None /\ p # c /\ predicate(t.pred, p, c)
                              THEN Return(t, Ok(c))
                              ELSE returned' = Nothing ]_vars
    /\ [](returned.result = TimeoutExpired => map[returned.key] # NoCell)

\* C13 witness: a wait_until_timeout woken by a set has returned
\* Ok(current) for a transition that satisfies its predicate
C13_Witness ==
    /\ returned.op = "wait_until_timeout"
    /\ returned.pc = "get_diff_cloned"
    /\ returned.before[1] # None
    /\ returned.result = Ok(returned.before[2])
    /\ predicate(returned.pred, returned.before[1], returned.before[2])

\* C14: a put overwrites a key while a wait_until is parked on the key's
\* cell, the waiter staying on the old cell: a put called on a key whose
\* cell has a parked waiter, with nothing else in flight on the key, can
\* take its step.
C14_OverwriteWhileParked ==
    \A p \in Running, w \in Running :
        ( /\ p.op = "put" /\ p.pc = "put"
          /\ w.op \in {"wait_until", "wait_until_timeout"}
          /\ w.pc = "notified" /\ w.key = p.key
          /\ \A u \in Running : u.key = p.key => (u.pc = "notified" \/ u = p) )
        => ENABLED put(p)

\* every Ref in flight points to the cell its key is mapped to: no call is
\* ever on a cell that a put has replaced
NoStaleEntry ==
    \A t \in Running : t.entry # NoCell => t.entry = map[t.key]

\* the waiters of cell c that a set has woken and that have not read yet
Woken(c) == { u \in Running : u.pc = "get_diff_cloned" /\ u.entry = c }

\* C15 as stated: every waiter woken by a set reads the pair that set
\* produced, also when further sets run on the cell between the wake-up and
\* the read: no set that takes the write lock while a woken waiter has yet
\* to read changes the pair of the cell.
C15_SameSnapshot ==
    [][ \A s \in Running :
          (set_prev(s) /\ Woken(s.entry) # {})
          => Pair(hist'[s.entry]) = Pair(hist[s.entry]) ]_vars

\* C15 amended: the notify_waiters of a set wakes every waiter parked on
\* the cell, the cell then holding the pair produced by that set; a woken
\* waiter reads the pair of the last set that took the write lock; until it
\* reads, that pair changes only by a further set taking the lock.
C15_WokenReadLast ==
    [][ \A t \in Running :
          /\ set_notify(t)
             => /\ Waiters(t.entry)' = {}
                /\ \A u \in Waiters(t.entry) :
                      Notified(u) \in Woken(t.entry)'
                /\ get_diff_cloned(t.entry) = Pair(hist[t.entry])
                /\ current[t.entry] = t.val
          /\ changed_check(t)
             => get_diff_cloned(t.entry) = Pair(hist[t.entry])
          /\ (t \in Woken(t.entry) /\ hist'[t.entry] # hist[t.entry])
             => \E s \in Running : s.entry = t.entry /\ set_prev(s) ]_vars

\* C15 witness: a set has completed that woke two waiters of its cell, and
\* neither has read yet
C15_Witness ==
    /\ returned.op = "set_state"
    /\ returned.pc = "set_end"
    /\ LET W == Woken(map[returned.key]) IN
          /\ get_diff_cloned(map[returned.key]) = <<returned.before[1], returned.val>>
          /\ \/ Cardinality(W) > 1
             \/ \E u \in W : CopiesIn(u, tasks) > 1

\* C16: a call comes to changed()'s read only by the notify_waiters of a
\* set on its cell; changed() returns only a pair (p, c)
\* with p present and p # c that the cell held at the instant of the read;
\* then wait_until evaluates predicate(p, c). On a pair with p = c, as a
\* set of the current value leaves it, changed() does not return: the call
\* parks again without evaluating its predicate.
C16_ChangedReturns ==
    [][ /\ \A u \in BagToSet(tasks') :
              (u.pc = "get_diff_cloned" /\ CopiesIn(u, tasks') > CopiesIn(u, tasks))
              => \/ \E s \in Running : s.entry = u.entry /\ set_notify(s)
                 \/ \E t \in Running : t.pc = "get_diff_cloned" /\ timer_fires(t)
        /\ \A t \in Running :
              changed_check(t)
              => LET p == prev[t.entry]
                     c == current[t.entry]
                 IN  /\ <<p, c>> = Pair(hist[t.entry])
                     /\ IF p # None /\ p # c
                           THEN IF predicate(t.pred, p, c)
                                   THEN Return(t, Ok(c))
                                   ELSE Goto(t, [t EXCEPT !.pc = "wait_until",
                                                          !.entry = NoCell])
                           ELSE GoesToPark(t) ]_vars

\* C16 witness: the only call in flight, a wait_until woken by a set of the
\* current value, has just read a pair (v, v) that satisfies its predicate
\* and gone back to park
C16_Witness ==
    /\ returned = Nothing
    /\ BagCardinality(tasks) = 1
    /\ \E t \in Running :
          /\ t.op = "wait_until" /\ t.pc = "changed"
          /\ prev[t.entry] = current[t.entry]
          /\ predicate(t.pred, prev[t.entry], current[t.entry])

\* C17: a set(new) with new equal to the current value is not suppressed:
\* it makes prev present and equal to new and leaves current = new, and
\* its notify_waiters wakes every waiter parked on the cell.
C17_NoOpSet ==
    [][ \A t \in Running :
          /\ (set_prev(t) /\ current[t.entry] = t.val)
             => /\ prev'[t.entry] = t.val
                /\ current'[t.entry] = t.val
          /\ (set_current(t) /\ current[t.entry] = t.val)
             => /\ prev'[t.entry] = t.val
                /\ current'[t.entry] = t.val
          /\ (set_notify(t) /\ prev[t.entry] = t.val)
             => /\ get_diff_cloned(t.entry) = <<t.val, t.val>>
                /\ Waiters(t.entry)' = {}
                /\ \A u \in Waiters(t.entry) : Notified(u) \in Woken(t.entry)' ]_vars

\* C17 witness: the first set on a cell, of the value the cell was created
\* with, has made prev present and woken a waiter
C17_Witness ==
    \E t \in Running :
        /\ t.op = "set_state" /\ t.pc = "set_end"
        /\ sets[t.entry] = 1
        /\ hist[t.entry] = <<t.val, t.val>>
        /\ get_diff_cloned(t.entry) = <<t.val, t.val>>
        /\ Woken(t.entry) # {}

\* C18 as stated: set acquires exclusive access, moves current to prev,
\* installs new, releases the access and then wakes the waiters: the
\* wake-up is never issued while the exclusive access is held.
C18_WakeAfterRelease ==
    [][ \A t \in Running :
          /\ set_prev(t) => (~wlock[t.entry] /\ wlock'[t.entry])
          /\ set_current(t) => wlock[t.entry]
          /\ set_notify(t) => ~wlock[t.entry] ]_vars

\* C18 amended: set acquires exclusive access and moves current to prev,
\* installs new, wakes the waiters with the exclusive access still held,
\* and releases the access last, when it returns.
C18_WakeBeforeRelease ==
    [][ \A t \in Running :
          /\ set_prev(t)
             => /\ ~wlock[t.entry] /\ wlock'[t.entry]
                /\ prev'[t.entry] = current[t.entry]
                /\ Goto(t, [t EXCEPT !.pc = "set_current"])
          /\ set_current(t)
             => /\ wlock[t.entry] /\ wlock'[t.entry]
                /\ current'[t.entry] = t.val
                /\ Goto(t, [t EXCEPT !.pc = "set_notify"])
          /\ set_notify(t)
             => /\ wlock[t.entry] /\ wlock'[t.entry]
                /\ Waiters(t.entry)' = {}
                /\ [t EXCEPT !.pc = "set_end"] \in BagToSet(tasks')
                /\ UNCHANGED <<prev, current>>
          /\ set_end(t)
             => /\ wlock[t.entry] /\ ~wlock'[t.entry]
                /\ Return(t, OkUnit)
                /\ UNCHANGED <<prev, current>> ]_vars

\* C18 witness: a set has issued its wake-up and still holds the write
\* lock; the waiter it woke waits for the read guard
C18_Witness ==
    \E t \in Running :
        /\ t.op = "set_state" /\ t.pc = "set_end"
        /\ wlock[t.entry]
        /\ prev[t.entry] # current[t.entry]
        /\ \E u \in Woken(t.entry) : ~Readable(u.entry)

\* C19: whenever wait_until or wait_until_timeout returns Ok(c), the cell it
\* resolved for the key held, at the instant of the read it returns from, a
\* pair (p, c) produced by the cell's sets (or by its creation, p absent)
\* with predicate(p, c) true, or predicate(c, c) true if p is absent.
C19_SoundValue ==
    [][ \A t \in Running :
          ( /\ t.op \in {"wait_until", "wait_until_timeout"}
            /\ returned'.result.kind = "Ok"
            /\ Return(t, returned'.result) )
          => LET p == prev[t.entry]
                 c == current[t.entry]
             IN  /\ t.entry = map[t.key]
                 /\ ~wlock[t.entry]
                 /\ <<p, c>> = Pair(hist[t.entry])
                 /\ returned'.result = Ok(c)
                 /\ IF p = None
                       THEN predicate(t.pred, c, c)
                       ELSE predicate(t.pred, p, c) ]_vars

\* C19 witness: a wait_until woken by a set has returned Ok(c) for the
\* transition (p, c), p # c, that the cell holds
C19_Witness ==
    /\ returned.op = "wait_until"
    /\ returned.pc = "get_diff_cloned"
    /\ returned.before[1] # None
    /\ returned.before[1] # returned.before[2]
    /\ returned.before = Pair(hist[map[returned.key]])
    /\ returned.result = Ok(returned.before[2])
    /\ predicate(returned.pred, returned.before[1], returned.before[2])

\* a step of a get_state, wait_until or wait_until_timeout call t
ReadStep(t) ==
    \/ get_state(t) \/ get_state_read(t)
    \/ wait_until(t) \/ wait_until_check(t) \/ changed(t) \/ changed_check(t)
    \/ timer_fires(t) \/ wait_until_timeout(t)

\* a step of a set_state call t
SetStep(t) ==
    set_state(t) \/ set_prev(t) \/ set_current(t) \/ set_notify(t) \/ set_end(t)

\* the entries and cells of the keys other than k are left as they are
OthersUnchanged(k) ==
    /\ \A j \in Keys \ {k} : map'[j] = map[j]
    /\ \A c \in Cells :
          c[1] # k => (prev'[c] = prev[c] /\ current'[c] = current[c])

\* C20: no step of get_state, wait_until or wait_until_timeout changes the
\* map or any cell's (prev, current); a step of set_state(k, v) leaves the
\* map as it is and changes only the cell mapped at k; put(k, v) and
\* remove(k) change only the entry of k, and remove of an absent key
\* changes nothing.
C20_Frame ==
    [][ \A t \in Running :
          /\ ReadStep(t) => UNCHANGED <<map, prev, current>>
          /\ SetStep(t)
             => /\ map' = map
                /\ \A c \in Cells :
                      c # map[t.key]
                      => (prev'[c] = prev[c] /\ current'[c] = current[c])
          /\ put(t) => OthersUnchanged(t.key)
          /\ remove(t)
             => /\ OthersUnchanged(t.key)
                /\ map[t.key] = NoCell => UNCHANGED <<map, prev, current>> ]_vars

\* C20 witness: a present key has been removed while the other key keeps
\* its cell, with its history and a waiter parked on it
C20_Witness ==
    /\ returned.op = "remove"
    /\ returned.before[2] # None
    /\ map[returned.key] = NoCell
    /\ \E u \in Running :
          /\ u.key # returned.key
          /\ u.pc = "notified"
          /\ u.entry = map[u.key]
          /\ sets[u.entry] > 0
          /\ get_diff_cloned(u.entry) = Pair(hist[u.entry])

=============================================================================
